---------------------------- MODULE Spec2Model ----------------------------
(***************************************************************************)
(* Model of the two scraping scripts of my-blog:                           *)
(*   scripts/mcp_scraper.py            (MCPContentScraper)                 *)
(*   scripts/enhanced_mcp_generator.py (EnhancedMCPContentGenerator)       *)
(*                                                                         *)
(* Strings are sequences of one-character strings, so that trimming,      *)
(* whitespace collapsing, splitting, lower-casing and substring search are *)
(* computed character by character, as the code computes them.             *)
(*                                                                         *)
(* Five specifications share the variables:                                *)
(*   SpecClean    clean_text applied to bounded input texts                *)
(*   SpecExtract  the in-page extraction applied to bounded documents      *)
(*   SpecScrape   the extraction of scrape_content, text and images        *)
(*   SpecRender   the template renderers of both scripts                   *)
(*   SpecRun      one run of either script: the loop over the URL list,    *)
(*                one browser session per fetch                            *)
(***************************************************************************)
EXTENDS Integers, Sequences, FiniteSets, TLC

VARIABLES
    \* ---- SpecClean
    text,       \* the argument of clean_text
    result,     \* what clean_text(text) returned
    again,      \* what clean_text(result) returned
    cpc,        \* "input" -> "cleaned" -> "recleaned" ("idle" in the other specifications)
    \* ---- SpecExtract
    dom,        \* the rendered document: its elements, in document order
    imgs,       \* the img elements of the rendered document, in document order
    content,    \* what the in-page extraction returned (items, or the text of scrape_content)
    images,     \* what the image extraction of scrape_content returned
    epc,        \* "page" -> "extracted" ("idle" in the other specifications)
    \* ---- SpecRun
    script,     \* "scraper" (mcp_scraper.py) or "generator" (enhanced_mcp_generator.py)
    topic_data, \* generator: the focus of the topic drawn by random.choice
    pc,         \* where the run is ("idle" in the other specifications)
    idx,        \* how many URLs of the list the for loop has taken
    fetched,    \* the URLs the fetch was called with, in call order
    pw,         \* TRUE inside async with async_playwright()
    sessions,   \* the browsers launched so far: [url, open, navs]
    failure,    \* what was raised in the fetch in progress, "none" if nothing
    page,       \* the page the navigation of the fetch in progress rendered
    ret,        \* what the last fetch returned
    log,        \* the URLs of the "Error scraping ..." lines printed
    all_content,        \* scraper: all_content; generator: all_scraped_content
    downloaded_images,  \* scraper: downloaded_images
    files,      \* scraper: the image files written under images_dir
    img_i,      \* scraper: the index i of the image loop
    attempts,   \* scraper: the download_image calls made for the current URL
    academic_paper,     \* generator: what generate_content returned
    summary,    \* the lines the entry point printed
    \* ---- SpecRender
    renderer,   \* "scraper" (generate_academic_content) or "generator"
    clock,      \* what datetime.now() reads: a position in Stamps
    self_stamp, \* generator: current_date and current_time of the object
    renders,    \* the calls of the renderer made so far, with what they returned
    rpc         \* "new" -> "ready" ("idle" in the other specifications)

cleanVars == <<text, result, again, cpc>>

extractVars == <<dom, imgs, content, images, epc>>

runVars == <<script, topic_data, pc, idx, fetched, pw, sessions, failure, page,
             ret, log, all_content, downloaded_images, files, img_i,
             attempts, academic_paper, summary>>

renderVars == <<renderer, clock, self_stamp, renders, rpc>>

vars == <<text, result, again, cpc, dom, imgs, content, images, epc,
          script, topic_data, pc, idx, fetched, pw, sessions, failure, page,
          ret, log, all_content, downloaded_images, files, img_i,
          attempts, academic_paper, summary,
          renderer, clock, self_stamp, renders, rpc>>

\* the values of the variables of a specification that is not running
NoText == <<"?">>

NoPaper == [title |-> "", content |-> <<>>, focus |-> ""]

CleanIdle == text = <<>> /\ result = NoText /\ again = NoText /\ cpc = "idle"

ExtractIdle ==
    dom = <<>> /\ imgs = <<>> /\ content = <<>> /\ images = <<>> /\ epc = "idle"

RunIdle ==
    /\ script = "none" /\ topic_data = "none" /\ pc = "idle" /\ idx = 0
    /\ fetched = <<>> /\ pw = FALSE /\ sessions = <<>> /\ failure = "none"
    /\ page = "none" /\ ret = "none" /\ log = <<>> /\ all_content = <<>>
    /\ downloaded_images = <<>> /\ files = {} /\ img_i = 0
    /\ attempts = <<>> /\ academic_paper = NoPaper /\ summary = <<>>

NoStamp == [current_date |-> "", current_time |-> ""]

RenderIdle ==
    /\ renderer = "none" /\ clock = 0 /\ self_stamp = NoStamp /\ renders = <<>>
    /\ rpc = "idle"

(***************************************************************************)
(* Characters and strings                                                  *)
(***************************************************************************)

\* The characters Python's \s and str.strip() (and JavaScript's trim) treat
\* as whitespace, as far as the input alphabet of the model has them.
Whitespace == {" ", "\n", "\t"}

IsWs(c) == c \in Whitespace

UpperCase == <<"A","B","C","D","E","F","G","H","I","J","K","L","M",
               "N","O","P","Q","R","S","T","U","V","W","X","Y","Z">>

LowerCase == <<"a","b","c","d","e","f","g","h","i","j","k","l","m",
               "n","o","p","q","r","s","t","u","v","w","x","y","z">>

\* str.lower(), one character
lower_char(c) ==
    IF \E i \in 1..Len(UpperCase) : UpperCase[i] = c
    THEN LowerCase[CHOOSE i \in 1..Len(UpperCase) : UpperCase[i] = c]
    ELSE c

\* str.lower()
lower(s) == [i \in 1..Len(s) |-> lower_char(s[i])]

\* c repeated n times
Rep(c, n) == [i \in 1..n |-> c]

\* phrase in line  (Python substring test)
Contains(line, phrase) ==
    \E i \in 0..(Len(line) - Len(phrase)) :
        SubSeq(line, i + 1, i + Len(phrase)) = phrase

RECURSIVE FirstNonWs(_, _)
FirstNonWs(s, i) ==
    IF i > Len(s) THEN i
    ELSE IF IsWs(s[i]) THEN FirstNonWs(s, i + 1) ELSE i

RECURSIVE LastNonWs(_, _)
LastNonWs(s, i) ==
    IF i < 1 THEN i
    ELSE IF IsWs(s[i]) THEN LastNonWs(s, i - 1) ELSE i

\* str.strip() / String.prototype.trim(): drop leading and trailing whitespace
strip(s) == SubSeq(s, FirstNonWs(s, 1), LastNonWs(s, Len(s)))

\* re.sub(r'\s+', ' ', s): every maximal run of whitespace becomes one space
collapse_ws(s) ==
    LET Starts(i) == ~IsWs(s[i]) \/ i = 1 \/ ~IsWs(s[i - 1])
        kept == SelectSeq([i \in 1..Len(s) |-> i], Starts)
    IN  [k \in 1..Len(kept) |-> IF IsWs(s[kept[k]]) THEN " " ELSE s[kept[k]]]

\* s.split(sep) for a one-character separator: the pieces between the
\* separators, empty pieces included; always at least one piece
split(s, sep) ==
    LET IsSep(i) == s[i] = sep
        at == SelectSeq([i \in 1..Len(s) |-> i], IsSep)
        cut == <<0>> \o at \o <<Len(s) + 1>>
    IN  [k \in 1..(Len(at) + 1) |-> SubSeq(s, cut[k] + 1, cut[k + 1] - 1)]

\* sep.join(pieces)
RECURSIVE join(_, _)
join(pieces, sep) ==
    IF Len(pieces) = 0 THEN <<>>
    ELSE IF Len(pieces) = 1 THEN pieces[1]
    ELSE pieces[1] \o <<sep>> \o join(Tail(pieces), sep)

\* seq[:n]
take(seq, n) == SubSeq(seq, 1, IF Len(seq) < n THEN Len(seq) ELSE n)

(***************************************************************************)
(* MCPContentScraper.clean_text                                            *)
(***************************************************************************)

skip_phrases == {
    <<"m","e","n","u">>,
    <<"n","a","v","i","g","a","t","i","o","n">>,
    <<"f","o","o","t","e","r">>,
    <<"c","o","p","y","r","i","g","h","t">>,
    <<"p","r","i","v","a","c","y"," ","p","o","l","i","c","y">>,
    <<"t","e","r","m","s"," ","o","f"," ","s","e","r","v","i","c","e">>,
    <<"c","o","o","k","i","e">>,
    <<"s","u","b","s","c","r","i","b","e">>,
    <<"f","o","l","l","o","w"," ","u","s">> }

\* len(line) > 30
MinLineLen == 30

\* cleaned_lines[:10]
MaxLines == 10

\* any(phrase in line.lower() for phrase in skip_phrases)
HasSkipPhrase(line) == \E phrase \in skip_phrases : Contains(lower(line), phrase)

\* the condition of the if in the loop over lines, on the stripped line
KeepLine(line) == Len(line) > MinLineLen /\ ~HasSkipPhrase(line)

\* The mutants of clean_text used to show that the claims read the code.
\* skip phrases compared without lower()
clean_text_case_sensitive(t) ==
    IF t = <<>> THEN <<>>
    ELSE LET lines == split(collapse_ws(t), "\n")
             stripped == [k \in 1..Len(lines) |-> strip(lines[k])]
             Keep(line) == Len(line) > MinLineLen
                           /\ ~\E phrase \in skip_phrases : Contains(line, phrase)
         IN  join(take(SelectSeq(stripped, Keep), MaxLines), "\n")

\* the length test made on the line before it is stripped
clean_text_len_before_strip(t) ==
    IF t = <<>> THEN <<>>
    ELSE LET lines == split(collapse_ws(t), "\n")
             Keep(line) == Len(line) > MinLineLen /\ ~HasSkipPhrase(line)
             kept == SelectSeq(lines, Keep)
         IN  join(take([k \in 1..Len(kept) |-> strip(kept[k])], MaxLines), "\n")

\* lines kept from 30 characters on
clean_text_from30(t) ==
    IF t = <<>> THEN <<>>
    ELSE LET lines == split(collapse_ws(t), "\n")
             stripped == [k \in 1..Len(lines) |-> strip(lines[k])]
             Keep(line) == Len(line) >= MinLineLen /\ ~HasSkipPhrase(line)
         IN  join(take(SelectSeq(stripped, Keep), MaxLines), "\n")

\* mutant: the text is split into lines first, each line is collapsed after
clean_text_split_first(t) ==
    IF t = <<>> THEN <<>>
    ELSE LET lines == split(t, "\n")
             stripped == [k \in 1..Len(lines) |-> strip(collapse_ws(lines[k]))]
         IN  join(take(SelectSeq(stripped, KeepLine), MaxLines), "\n")

clean_text(t) ==
    IF t = <<>> THEN <<>>                                  \* if not text: return ""
    ELSE LET collapsed == collapse_ws(t)                   \* re.sub(r'\s+', ' ', text)
             lines == split(collapsed, "\n")               \* text.split('\n')
             stripped == [k \in 1..Len(lines) |-> strip(lines[k])]
             cleaned_lines == SelectSeq(stripped, KeepLine)
         IN  join(take(cleaned_lines, MaxLines), "\n")

(***************************************************************************)
(* SpecClean: clean_text on bounded inputs                                 *)
(***************************************************************************)

\* An input text is a concatenation of at most MaxChunks of these pieces.
MaxChunks == 5

Menu == <<"M","e","n","u">>

Chunks == { Rep("x", MinLineLen + 1), Rep("x", MinLineLen), Menu,
            <<" ">>, <<"\n">>, <<"\t">> }

RECURSIVE Concat(_)
Concat(seqs) == IF seqs = <<>> THEN <<>> ELSE Head(seqs) \o Concat(Tail(seqs))

Texts == { Concat(cs) : cs \in UNION { [1..n -> Chunks] : n \in 0..MaxChunks } }

InitClean ==
    /\ text \in Texts
    /\ result = NoText
    /\ again = NoText
    /\ cpc = "input"
    /\ ExtractIdle
    /\ RunIdle
    /\ RenderIdle

\* mutant: clean_text keeps what it returned on the scraper object
CleanText_remembering ==
    /\ cpc = "input"
    /\ result' = clean_text(text)
    /\ cpc' = "cleaned"
    /\ all_content' = Append(all_content, [source |-> "", text |-> clean_text(text)])
    /\ UNCHANGED <<text, again>>
    /\ UNCHANGED <<extractVars, renderVars>>
    /\ UNCHANGED <<script, topic_data, pc, idx, fetched, pw, sessions, failure, page,
                   ret, log, downloaded_images, files, img_i,
                   attempts, academic_paper, summary>>

\* result = clean_text(text)
CleanText ==
    /\ cpc = "input"
    /\ result' = clean_text(text)
    /\ cpc' = "cleaned"
    /\ UNCHANGED <<text, again>>
    /\ UNCHANGED <<extractVars, runVars, renderVars>>

\* again = clean_text(result): the cleaner applied to its own output
CleanAgain ==
    /\ cpc = "cleaned"
    /\ again' = clean_text(result)
    /\ cpc' = "recleaned"
    /\ UNCHANGED <<text, result>>
    /\ UNCHANGED <<extractVars, runVars, renderVars>>

NextClean == CleanText \/ CleanAgain

SpecClean == InitClean /\ [][NextClean]_vars

(***************************************************************************)
(* The in-page extraction of scrape_academic_content                       *)
(*                                                                         *)
(* An element of the document is a record                                  *)
(*   tagName  the upper-case tag name, as Element.tagName gives it          *)
(*   cls      its class list                                               *)
(*   text     its textContent                                              *)
(*   anc      the selectors, among main, article, .content, .documentation *)
(*            and others, that some ancestor of the element matches        *)
(***************************************************************************)

Digits == <<"0","1","2","3","4","5","6","7","8","9">>

\* String.prototype.charAt(i): positions count from 0
charAt(s, i) == IF i + 1 \in 1..Len(s) THEN <<s[i + 1]>> ELSE <<>>

NaN == -1

\* parseInt of a string of at most one character
parseInt(s) ==
    IF Len(s) = 1 /\ \E d \in 1..Len(Digits) : Digits[d] = s[1]
    THEN (CHOOSE d \in 1..Len(Digits) : Digits[d] = s[1]) - 1
    ELSE NaN

\* querySelectorAll('h1, h2, h3, h4, h5, h6')
HeadingTags == { <<"H", Digits[n + 1]>> : n \in 1..6 }

\* querySelectorAll('pre, code')
CodeTags == { <<"P","R","E">>, <<"C","O","D","E">> }

ParagraphTag == <<"P">>

\* the containers of 'main p, article p, .content p, .documentation p'
MainContainers == {"main", "article", ".content", ".documentation"}

MatchesHeading(el) == el.tagName \in HeadingTags

MatchesCode(el) == el.tagName \in CodeTags

MatchesMainParagraph(el) ==
    el.tagName = ParagraphTag /\ el.anc \cap MainContainers # {}

\* text.length > 10
MinHeadingLen == 10

\* text.length > 20
MinCodeLen == 20

\* text.length > 50 && text.length < 500
MinParagraphLen == 50

MaxParagraphLen == 500

\* mutant: headings kept from 10 characters on
HeadingItems_from10(d) ==
    LET Keep(el) == MatchesHeading(el) /\ Len(strip(el.text)) >= MinHeadingLen
        kept == SelectSeq(d, Keep)
    IN  [k \in 1..Len(kept) |->
            [type |-> "heading",
             level |-> parseInt(charAt(kept[k].tagName, 1)),
             text |-> strip(kept[k].text)]]

\* headings.forEach(...)
HeadingItems(d) ==
    LET Keep(el) == MatchesHeading(el) /\ Len(strip(el.text)) > MinHeadingLen
        kept == SelectSeq(d, Keep)
    IN  [k \in 1..Len(kept) |->
            [type |-> "heading",
             level |-> parseInt(charAt(kept[k].tagName, 1)),
             text |-> strip(kept[k].text)]]

\* mutant: code blocks kept from 20 characters on
CodeItems_from20(d) ==
    LET Keep(el) == MatchesCode(el) /\ Len(strip(el.text)) >= MinCodeLen
        kept == SelectSeq(d, Keep)
    IN  [k \in 1..Len(kept) |-> [type |-> "code", text |-> strip(kept[k].text)]]

\* codeBlocks.forEach(...)
CodeItems(d) ==
    LET Keep(el) == MatchesCode(el) /\ Len(strip(el.text)) > MinCodeLen
        kept == SelectSeq(d, Keep)
    IN  [k \in 1..Len(kept) |-> [type |-> "code", text |-> strip(kept[k].text)]]

\* mutant: the length of a paragraph tested before it is trimmed
ParagraphItems_untrimmed_length(d) ==
    LET Keep(el) == /\ MatchesMainParagraph(el)
                    /\ Len(el.text) > MinParagraphLen
                    /\ Len(el.text) < MaxParagraphLen
        kept == SelectSeq(d, Keep)
    IN  [k \in 1..Len(kept) |-> [type |-> "paragraph", text |-> strip(kept[k].text)]]

\* paragraphs.forEach(...)
ParagraphItems(d) ==
    LET Keep(el) == /\ MatchesMainParagraph(el)
                    /\ Len(strip(el.text)) > MinParagraphLen
                    /\ Len(strip(el.text)) < MaxParagraphLen
        kept == SelectSeq(d, Keep)
    IN  [k \in 1..Len(kept) |-> [type |-> "paragraph", text |-> strip(kept[k].text)]]

\* mutant: the paragraph pass run before the other two
academic_extract_paragraphs_first(d) ==
    ParagraphItems(d) \o HeadingItems(d) \o CodeItems(d)

\* the function evaluated in the page: the three passes push onto one array
academic_extract(d) == HeadingItems(d) \o CodeItems(d) \o ParagraphItems(d)

(***************************************************************************)
(* The in-page extraction of scrape_content                                *)
(***************************************************************************)

selectors == << "main", "article", ".content", ".documentation",
                "main p", "article p", ".content p", ".documentation p" >>

MainTag == <<"M","A","I","N">>

ArticleTag == <<"A","R","T","I","C","L","E">>

\* element.matches(selector), for the selectors of the list above
Matches(el, sel) ==
    CASE sel = "main"             -> el.tagName = MainTag
      [] sel = "article"          -> el.tagName = ArticleTag
      [] sel = ".content"         -> "content" \in el.cls
      [] sel = ".documentation"   -> "documentation" \in el.cls
      [] sel = "main p"           -> el.tagName = ParagraphTag /\ "main" \in el.anc
      [] sel = "article p"        -> el.tagName = ParagraphTag /\ "article" \in el.anc
      [] sel = ".content p"       -> el.tagName = ParagraphTag /\ ".content" \in el.anc
      [] sel = ".documentation p" -> el.tagName = ParagraphTag /\ ".documentation" \in el.anc

\* document.querySelectorAll(selector)
querySelectorAll(d, sel) == LET M(el) == Matches(el, sel) IN SelectSeq(d, M)

\* el.textContent.trim().length > 50
MinTextLen == 50

\* elements.forEach(el => { if (...) text += el.textContent.trim() + '\n\n' })
RECURSIVE TextOf(_)
TextOf(elements) ==
    IF elements = <<>> THEN <<>>
    ELSE (IF Len(strip(Head(elements).text)) > MinTextLen
          THEN strip(Head(elements).text) \o <<"\n", "\n">>
          ELSE <<>>) \o TextOf(Tail(elements))

\* mutant: the loop goes on to the next selector while the text is empty
RECURSIVE scrape_text_from_until_text(_, _)
scrape_text_from_until_text(d, k) ==
    IF k > Len(selectors) THEN <<>>
    ELSE IF TextOf(querySelectorAll(d, selectors[k])) # <<>>
         THEN TextOf(querySelectorAll(d, selectors[k]))
         ELSE scrape_text_from_until_text(d, k + 1)

\* for (const selector of selectors) { ...; if (elements.length > 0) { ...; break } }
RECURSIVE scrape_text_from(_, _)
scrape_text_from(d, k) ==
    IF k > Len(selectors) THEN <<>>
    ELSE IF Len(querySelectorAll(d, selectors[k])) > 0
         THEN TextOf(querySelectorAll(d, selectors[k]))
         ELSE scrape_text_from(d, k + 1)

\* the first function evaluated in the page by scrape_content
scrape_text(d) == scrape_text_from(d, 1)

\* img.width > 100 || img.height > 100
MinImageSize == 100

\* mutant: an image kept only when both its width and its height exceed 100
scrape_images_both_sides(imgs1) ==
    LET Keep(img) == img.src # "" /\ (img.width > MinImageSize /\ img.height > MinImageSize)
    IN  SelectSeq(imgs1, Keep)

\* the second function evaluated in the page by scrape_content; an image is
\* a record [src, alt, width, height] (img.alt || '', img.width || 0, ...)
scrape_images(imgs1) ==
    LET Keep(img) == img.src # "" /\ (img.width > MinImageSize \/ img.height > MinImageSize)
    IN  SelectSeq(imgs1, Keep)

(***************************************************************************)
(* SpecExtract: the extraction on bounded documents                        *)
(***************************************************************************)

\* A document has at most MaxElems elements.
MaxElems == 2

\* n characters that are not whitespace
Body(n) == Rep("x", n)

\* the same between a leading space and a trailing newline
Padded(n) == <<" ">> \o Rep("x", n) \o <<"\n">>

HeadingTexts == { Body(3), Padded(MinHeadingLen),
                  Body(MinHeadingLen + 1), Body(MinHeadingLen + 2) }

CodeTexts == { Padded(MinCodeLen), Body(MinCodeLen + 1) }

ParagraphTexts == { Padded(MinParagraphLen), Body(MinParagraphLen + 1),
                    Padded(MaxParagraphLen - 1), Body(MaxParagraphLen) }

Elements ==
    { [tagName |-> t, cls |-> {}, text |-> x, anc |-> {"main"}] :
          t \in HeadingTags, x \in HeadingTexts }
    \cup { [tagName |-> t, cls |-> {}, text |-> x, anc |-> {"main"}] :
          t \in CodeTags, x \in CodeTexts }
    \cup { [tagName |-> ParagraphTag, cls |-> {}, text |-> x, anc |-> {a}] :
          x \in ParagraphTexts, a \in MainContainers \cup {"div"} }

Documents == UNION { [1..n -> Elements] : n \in 0..MaxElems }

InitExtract ==
    /\ dom \in Documents
    /\ imgs = <<>>
    /\ content = <<>>
    /\ images = <<>>
    /\ epc = "page"
    /\ CleanIdle
    /\ RunIdle
    /\ RenderIdle

\* content = await page.evaluate(...)
Evaluate ==
    /\ epc = "page"
    /\ content' = academic_extract(dom)
    /\ epc' = "extracted"
    /\ UNCHANGED <<dom, imgs, images>>
    /\ UNCHANGED <<cleanVars, runVars, renderVars>>

NextExtract == Evaluate

SpecExtract == InitExtract /\ [][NextExtract]_vars

(***************************************************************************)
(* SpecScrape: the two extractions of scrape_content on bounded documents  *)
(***************************************************************************)

\* A document has at most MaxElems elements and at most MaxImgs images.
MaxImgs == 2

DivTag == <<"D","I","V">>

ScrapeElements ==
    { [tagName |-> MainTag, cls |-> {}, anc |-> {}, text |-> Body(MinTextLen + 1)],
      [tagName |-> MainTag, cls |-> {}, anc |-> {}, text |-> Padded(MinTextLen)],
      [tagName |-> ArticleTag, cls |-> {}, anc |-> {}, text |-> Body(MinTextLen + 2)],
      [tagName |-> DivTag, cls |-> {"content"}, anc |-> {}, text |-> Body(MinTextLen + 3)],
      [tagName |-> DivTag, cls |-> {"documentation"}, anc |-> {},
       text |-> Padded(MinTextLen)],
      [tagName |-> DivTag, cls |-> {}, anc |-> {}, text |-> Body(MinTextLen + 4)],
      [tagName |-> ParagraphTag, cls |-> {}, anc |-> {"main"},
       text |-> Padded(MinTextLen + 5)],
      [tagName |-> ParagraphTag, cls |-> {}, anc |-> {"article"},
       text |-> Body(MinTextLen + 6)],
      [tagName |-> ParagraphTag, cls |-> {}, anc |-> {".documentation"},
       text |-> Body(MinTextLen + 7)] }

ScrapeDocuments == UNION { [1..n -> ScrapeElements] : n \in 0..MaxElems }

ImageElements ==
    { [src |-> "a.png", alt |-> "", width |-> sz[1], height |-> sz[2]] :
          sz \in { <<80, 80>>, <<120, 50>>, <<100, 100>>, <<100, 101>>, <<0, 0>> } }
    \cup { [src |-> "", alt |-> "logo", width |-> 120, height |-> 50] }

ImageLists == UNION { [1..n -> ImageElements] : n \in 0..MaxImgs }

InitScrape ==
    /\ dom \in ScrapeDocuments
    /\ imgs \in ImageLists
    /\ content = <<>>
    /\ images = <<>>
    /\ epc = "page"
    /\ CleanIdle
    /\ RunIdle
    /\ RenderIdle

\* content = await page.evaluate(...)
ScrapeText ==
    /\ epc = "page"
    /\ content' = scrape_text(dom)
    /\ epc' = "text"
    /\ UNCHANGED <<dom, imgs, images>>
    /\ UNCHANGED <<cleanVars, runVars, renderVars>>

\* images = await page.evaluate(...)
ScrapeImages ==
    /\ epc = "text"
    /\ images' = scrape_images(imgs)
    /\ epc' = "extracted"
    /\ UNCHANGED <<dom, imgs, content>>
    /\ UNCHANGED <<cleanVars, runVars, renderVars>>

NextScrape == ScrapeText \/ ScrapeImages

SpecScrape == InitScrape /\ [][NextScrape]_vars

(***************************************************************************)
(* The template renderers                                                  *)
(***************************************************************************)

\* A rendered text is the sequence of its pieces: the fixed prose between two
\* substitutions, which counts only by its length, and the substituted values.
Lit(n) == [kind |-> "literal", val |-> n]

Sub(kind, v) == [kind |-> kind, val |-> v]

\* EnhancedMCPContentGenerator.research_topics: title and focus
research_topics == <<
    [title |-> "Model Context Protocol: A Comprehensive Technical Analysis",
     focus |-> "architecture"],
    [title |-> "Security Frameworks in Model Context Protocol Implementations",
     focus |-> "security"],
    [title |-> "Performance Optimization Strategies for MCP Systems",
     focus |-> "performance"],
    [title |-> "Integration Patterns: MCP in Modern Development Workflows",
     focus |-> "integration"],
    [title |-> "Context Management in Large-Scale MCP Deployments",
     focus |-> "context"] >>

Topics == { research_topics[k] : k \in 1..Len(research_topics) }

\* the five paper templates: the title after "# ", the prose of the paper, and
\* the footer "*Published: {self.current_date} {self.current_time}*"; the
\* scraped content is a parameter and appears in none of the pieces
\* mutant: the architecture paper carries the texts of the scraped items
_generate_architecture_paper_with_content(td, sc, self) ==
    << Lit(2), Sub("title", td.title), Lit(5554) >>
    \o [i \in 1..Len(sc) |-> Sub("text", sc[i].text)]
    \o << Sub("date", self.current_date), Lit(1), Sub("time", self.current_time),
          Lit(90) >>

_generate_architecture_paper(td, sc, self) ==
    << Lit(2), Sub("title", td.title), Lit(5554), Sub("date", self.current_date),
       Lit(1), Sub("time", self.current_time), Lit(90) >>

_generate_security_paper(td, sc, self) ==
    << Lit(2), Sub("title", td.title), Lit(3997), Sub("date", self.current_date),
       Lit(1), Sub("time", self.current_time), Lit(85) >>

_generate_performance_paper(td, sc, self) ==
    << Lit(2), Sub("title", td.title), Lit(4769), Sub("date", self.current_date),
       Lit(1), Sub("time", self.current_time), Lit(92) >>

_generate_integration_paper(td, sc, self) ==
    << Lit(2), Sub("title", td.title), Lit(6313), Sub("date", self.current_date),
       Lit(1), Sub("time", self.current_time), Lit(91) >>

_generate_context_paper(td, sc, self) ==
    << Lit(2), Sub("title", td.title), Lit(6250), Sub("date", self.current_date),
       Lit(1), Sub("time", self.current_time), Lit(98) >>

\* the template is selected by topic_data["focus"]
generate_high_quality_academic_paper(td, sc, self) ==
    IF td.focus = "architecture" THEN _generate_architecture_paper(td, sc, self)
    ELSE IF td.focus = "security" THEN _generate_security_paper(td, sc, self)
    ELSE IF td.focus = "performance" THEN _generate_performance_paper(td, sc, self)
    ELSE IF td.focus = "integration" THEN _generate_integration_paper(td, sc, self)
    ELSE _generate_context_paper(td, sc, self)

\* academic_templates of generate_academic_content, in the order of its keys:
\* "introduction", "technical_analysis", "case_study".  current_time is
\* datetime.now() formatted "%Y-%m-%d %H:%M:%S", read inside the call.
academic_templates(sc, current_time) == <<
    << Lit(239), Sub("date_time", current_time), Lit(463), Sub("text", sc), Lit(792) >>,
    << Lit(276), Sub("date_time", current_time), Lit(29), Sub("text", sc), Lit(1004) >>,
    << Lit(285), Sub("text", sc), Lit(1160) >> >>

\* template_keys[hash(topic) % len(template_keys)]: h stands for hash(topic),
\* which Python draws per process for a string
generate_academic_content(sc, topic, current_time, h) ==
    academic_templates(sc, current_time)[(h % 3) + 1]

(***************************************************************************)
(* SpecRender: the renderers called on one object, at different times      *)
(***************************************************************************)

MaxRenders == 2

\* the date and time datetime.now() may read
Stamps == << [current_date |-> "2025-01-01", current_time |-> "23:59:59"],
             [current_date |-> "2025-01-02", current_time |-> "00:00:00"],
             [current_date |-> "2025-01-02", current_time |-> "00:00:01"] >>

\* the scraped content a render is called with: a list of items for the
\* generator, a cleaned text for the scraper
ScrapedLists ==
    { <<>>,
      << [type |-> "paragraph", text |-> Rep("x", MinParagraphLen + 1)] >>,
      << [type |-> "heading", level |-> 2, text |-> Rep("y", MinHeadingLen + 1)],
         [type |-> "paragraph", text |-> Rep("x", MinParagraphLen + 1)] >> }

ScrapedTexts == { <<>>, Rep("x", MinLineLen + 1) }

InitRender ==
    /\ renderer \in {"scraper", "generator"}
    /\ clock = 1
    /\ self_stamp = NoStamp
    /\ renders = <<>>
    /\ rpc = "new"
    /\ CleanIdle
    /\ ExtractIdle
    /\ RunIdle

\* EnhancedMCPContentGenerator.__init__ reads the clock twice, for the date
\* and then for the time (time may pass in between);
\* MCPContentScraper.__init__ does not read it
Construct ==
    /\ rpc = "new"
    /\ IF renderer = "generator"
       THEN \E later \in clock..Len(Stamps) :
               /\ self_stamp' = [current_date |-> Stamps[clock].current_date,
                                 current_time |-> Stamps[later].current_time]
               /\ clock' = later
       ELSE self_stamp' = NoStamp /\ clock' = clock
    /\ rpc' = "ready"
    /\ UNCHANGED <<renderer, renders>>
    /\ UNCHANGED <<cleanVars, extractVars, runVars>>

\* time passes
Tick ==
    /\ clock < Len(Stamps)
    /\ clock' = clock + 1
    /\ UNCHANGED <<renderer, self_stamp, renders, rpc>>
    /\ UNCHANGED <<cleanVars, extractVars, runVars>>

\* mutant: the generator reads the clock when it renders
Render_reading_clock ==
    /\ rpc = "ready"
    /\ Len(renders) < MaxRenders
    /\ \E td \in Topics :
          IF renderer = "generator"
          THEN \E sc \in ScrapedLists :
                  renders' = Append(renders,
                     [topic |-> td, scraped_content |-> sc, at |-> clock,
                      out |-> generate_high_quality_academic_paper(td, sc,
                                                                   Stamps[clock])])
          ELSE \E sc \in ScrapedTexts, h \in 0..2 :
                  renders' = Append(renders,
                     [topic |-> td, scraped_content |-> sc, at |-> clock,
                      out |-> generate_academic_content(sc, td.title,
                                                        Stamps[clock], h)])
    /\ UNCHANGED <<renderer, clock, self_stamp, rpc>>
    /\ UNCHANGED <<cleanVars, extractVars, runVars>>

\* one call of generate_high_quality_academic_paper(topic_data, scraped_content)
\* or of generate_academic_content(scraped_content, topic)
Render ==
    /\ rpc = "ready"
    /\ Len(renders) < MaxRenders
    /\ \E td \in Topics :
          IF renderer = "generator"
          THEN \E sc \in ScrapedLists :
                  renders' = Append(renders,
                     [topic |-> td, scraped_content |-> sc, at |-> clock,
                      out |-> generate_high_quality_academic_paper(td, sc, self_stamp)])
          ELSE \E sc \in ScrapedTexts, h \in 0..2 :
                  renders' = Append(renders,
                     [topic |-> td, scraped_content |-> sc, at |-> clock,
                      out |-> generate_academic_content(sc, td.title,
                                                        Stamps[clock], h)])
    /\ UNCHANGED <<renderer, clock, self_stamp, rpc>>
    /\ UNCHANGED <<cleanVars, extractVars, runVars>>

NextRender == Construct \/ Tick \/ Render

SpecRender == InitRender /\ [][NextRender]_vars

(***************************************************************************)
(* SpecRun: one run of run_scraper or of generate_content                  *)
(***************************************************************************)

\* MCPContentScraper.content_sources
content_sources == << "https://modelcontextprotocol.io",
                      "https://github.com/modelcontextprotocol",
                      "https://docs.anthropic.com/claude/docs/mcp",
                      "https://www.anthropic.com/news/model-context-protocol",
                      "https://github.com/topics/model-context-protocol" >>

\* EnhancedMCPContentGenerator.academic_sources
academic_sources == << "https://modelcontextprotocol.io/docs",
                       "https://github.com/modelcontextprotocol/servers",
                       "https://github.com/modelcontextprotocol/clients",
                       "https://docs.anthropic.com/claude/docs/mcp",
                       "https://github.com/anthropics/anthropic-sdk-python" >>

\* self.academic_sources[:3]
SourcesLimit == 3

\* images[:2]
MaxImagesPerSource == 2

\* the focus values of research_topics
Focuses == {"architecture", "security", "performance", "integration", "context"}

\* the URL list the for loop of the running script goes through
urls == IF script = "scraper" THEN content_sources
        ELSE take(academic_sources, SourcesLimit)

\* Python's None, as a value no text equals
None == <<"None">>

NoPage == [dom |-> <<>>, imgs |-> <<>>]

NoRet == [content |-> None, images |-> <<>>]

\* The pages a navigation may render: a page is its elements (dom) and its
\* img elements (imgs).
\* A page with main content, a heading, a paragraph and four images, three of
\* them large enough.
PageArticle ==
    [dom |-> << [tagName |-> MainTag, cls |-> {}, anc |-> {}, text |-> Padded(60)],
                [tagName |-> <<"H","2">>, cls |-> {}, anc |-> {"main"}, text |-> Body(12)],
                [tagName |-> ParagraphTag, cls |-> {}, anc |-> {"main"}, text |-> Body(51)] >>,
     imgs |-> << [src |-> "a.png", alt |-> "", width |-> 120, height |-> 50],
                 [src |-> "b.png", alt |-> "logo", width |-> 80, height |-> 80],
                 [src |-> "c.png", alt |-> "diagram", width |-> 200, height |-> 200],
                 [src |-> "d.png", alt |-> "", width |-> 300, height |-> 300] >>]

\* A page with nothing to extract.
PageBare ==
    [dom |-> << [tagName |-> <<"H","1">>, cls |-> {}, anc |-> {}, text |-> Body(3)] >>,
     imgs |-> <<>>]

\* A page whose main content is navigation boilerplate.
PageBoilerplate ==
    [dom |-> << [tagName |-> MainTag, cls |-> {}, anc |-> {},
                 text |-> Menu \o <<" ">> \o Body(60)] >>,
     imgs |-> << [src |-> "e.png", alt |-> "", width |-> 80, height |-> 80] >>]

Pages == {PageArticle, PageBare, PageBoilerplate}

\* what requests.get, the open of the file and the write can come to: a
\* status 200 with the bytes written, another status, requests.get raising
\* (timeout, network error), open raising, write raising
DownloadOutcomes == {"200", "404", "timeout", "network", "open_error", "write_error"}

\* the return value None of download_image
NoPath == [h |-> 0, i |-> 0]

InitRun ==
    /\ script \in {"scraper", "generator"}
    /\ topic_data = "none"
    /\ pc = "start"
    /\ idx = 0
    /\ fetched = <<>>
    /\ pw = FALSE
    /\ sessions = <<>>
    /\ failure = "none"
    /\ page = NoPage
    /\ ret = NoRet
    /\ log = <<>>
    /\ all_content = <<>>
    /\ downloaded_images = <<>>
    /\ files = {}
    /\ img_i = 0
    /\ attempts = <<>>
    /\ academic_paper = NoPaper
    /\ summary = <<>>
    /\ CleanIdle
    /\ ExtractIdle
    /\ RenderIdle

url == urls[idx]

\* the browser of the fetch in progress is the one launched last
browser == Len(sessions)

OpenSessions == { k \in 1..Len(sessions) : sessions[k].open }

\* run_scraper: setup_directories, all_content = "", downloaded_images = []
\* generate_content: topic_data = random.choice(self.research_topics),
\*                   all_scraped_content = []
Start ==
    /\ pc = "start"
    /\ topic_data' \in (IF script = "generator" THEN Focuses ELSE {"none"})
    /\ all_content' = <<>>
    /\ downloaded_images' = <<>>
    /\ pc' = "for"
    /\ UNCHANGED <<script, idx, fetched, pw, sessions, failure, page, ret, log,
                   files, img_i>>
    /\ UNCHANGED <<attempts, academic_paper, summary>>
    /\ UNCHANGED <<cleanVars, extractVars, renderVars>>

\* for url in ...: the next URL of the list; the fetch is called with it
ForNext ==
    /\ pc = "for"
    /\ idx < Len(urls)
    /\ idx' = idx + 1
    /\ fetched' = Append(fetched, urls[idx + 1])
    /\ failure' = "none"
    /\ pc' = "enter"
    /\ UNCHANGED <<script, topic_data, pw, sessions, page, ret, log, all_content,
                   downloaded_images, files, img_i>>
    /\ UNCHANGED <<attempts, academic_paper, summary>>
    /\ UNCHANGED <<cleanVars, extractVars, renderVars>>

\* the list is exhausted: the run returns
ForEnd ==
    /\ pc = "for"
    /\ idx = Len(urls)
    /\ pc' = "done"
    /\ UNCHANGED <<script, topic_data, idx, fetched, pw, sessions, failure, page,
                   ret, log, all_content, downloaded_images, files, img_i>>
    /\ UNCHANGED <<attempts, academic_paper, summary>>
    /\ UNCHANGED <<cleanVars, extractVars, renderVars>>

\* async with async_playwright() as p:
EnterPlaywright ==
    /\ pc = "enter"
    /\ pw' = TRUE
    /\ pc' = "launch"
    /\ UNCHANGED <<script, topic_data, idx, fetched, sessions, failure, page, ret,
                   log, all_content, downloaded_images, files, img_i>>
    /\ UNCHANGED <<attempts, academic_paper, summary>>
    /\ UNCHANGED <<cleanVars, extractVars, renderVars>>

\* mutant: a browser that is still there is used again instead of a new one
Launch_reusing ==
    /\ pc = "launch"
    /\ sessions' = IF sessions = <<>>
                   THEN <<[url |-> url, open |-> TRUE, navs |-> <<>>]>>
                   ELSE [sessions EXCEPT ![browser].open = TRUE]
    /\ pc' = "new_page"
    /\ UNCHANGED <<script, topic_data, idx, fetched, pw, failure, page, ret, log,
                   all_content, downloaded_images, files, img_i>>
    /\ UNCHANGED <<attempts, academic_paper, summary>>
    /\ UNCHANGED <<cleanVars, extractVars, renderVars>>

\* browser = await p.chromium.launch(headless=True)
Launch ==
    /\ pc = "launch"
    /\ sessions' = Append(sessions, [url |-> url, open |-> TRUE, navs |-> <<>>])
    /\ pc' = "new_page"
    /\ UNCHANGED <<script, topic_data, idx, fetched, pw, failure, page, ret, log,
                   all_content, downloaded_images, files, img_i>>
    /\ UNCHANGED <<attempts, academic_paper, summary>>
    /\ UNCHANGED <<cleanVars, extractVars, renderVars>>

\* ... raises: the call is outside the try, the exception leaves the fetch
LaunchFails ==
    /\ pc = "launch"
    /\ failure' = "launch"
    /\ pc' = "unwind"
    /\ UNCHANGED <<script, topic_data, idx, fetched, pw, sessions, page, ret, log,
                   all_content, downloaded_images, files, img_i>>
    /\ UNCHANGED <<attempts, academic_paper, summary>>
    /\ UNCHANGED <<cleanVars, extractVars, renderVars>>

\* page = await browser.new_page()
NewPage ==
    /\ pc = "new_page"
    /\ pc' = "goto"
    /\ UNCHANGED <<script, topic_data, idx, fetched, pw, sessions, failure, page,
                   ret, log, all_content, downloaded_images, files, img_i>>
    /\ UNCHANGED <<attempts, academic_paper, summary>>
    /\ UNCHANGED <<cleanVars, extractVars, renderVars>>

\* ... raises: outside the try as well, with the browser open
NewPageFails ==
    /\ pc = "new_page"
    /\ failure' = "new_page"
    /\ pc' = "unwind"
    /\ UNCHANGED <<script, topic_data, idx, fetched, pw, sessions, page, ret, log,
                   all_content, downloaded_images, files, img_i>>
    /\ UNCHANGED <<attempts, academic_paper, summary>>
    /\ UNCHANGED <<cleanVars, extractVars, renderVars>>

\* await page.goto(url, wait_until="networkidle"[, timeout=30000])
Goto ==
    /\ pc = "goto"
    /\ page' \in Pages
    /\ sessions' = [sessions EXCEPT ![browser].navs = Append(@, url)]
    /\ pc' = "evaluate"
    /\ UNCHANGED <<script, topic_data, idx, fetched, pw, failure, ret, log,
                   all_content, downloaded_images, files, img_i>>
    /\ UNCHANGED <<attempts, academic_paper, summary>>
    /\ UNCHANGED <<cleanVars, extractVars, renderVars>>

\* mutant: the navigation outside the try
GotoFails_unguarded ==
    /\ pc = "goto"
    /\ failure' \in {"navigation", "timeout"}
    /\ sessions' = [sessions EXCEPT ![browser].navs = Append(@, url)]
    /\ pc' = "unwind"
    /\ UNCHANGED <<script, topic_data, idx, fetched, pw, page, ret, log,
                   all_content, downloaded_images, files, img_i>>
    /\ UNCHANGED <<attempts, academic_paper, summary>>
    /\ UNCHANGED <<cleanVars, extractVars, renderVars>>

\* ... raises a navigation error or times out: inside the try
GotoFails ==
    /\ pc = "goto"
    /\ failure' \in {"navigation", "timeout"}
    /\ sessions' = [sessions EXCEPT ![browser].navs = Append(@, url)]
    /\ pc' = "except"
    /\ UNCHANGED <<script, topic_data, idx, fetched, pw, page, ret, log,
                   all_content, downloaded_images, files, img_i>>
    /\ UNCHANGED <<attempts, academic_paper, summary>>
    /\ UNCHANGED <<cleanVars, extractVars, renderVars>>

\* content = await page.evaluate(...)
EvaluateContent ==
    /\ pc = "evaluate"
    /\ ret' = [content |-> IF script = "scraper" THEN scrape_text(page.dom)
                           ELSE academic_extract(page.dom),
               images |-> <<>>]
    /\ pc' = IF script = "scraper" THEN "evaluate_images" ELSE "close"
    /\ UNCHANGED <<script, topic_data, idx, fetched, pw, sessions, failure, page,
                   log, all_content, downloaded_images, files, img_i>>
    /\ UNCHANGED <<attempts, academic_paper, summary>>
    /\ UNCHANGED <<cleanVars, extractVars, renderVars>>

\* mutant: the extraction outside the try
EvaluateContentFails_unguarded ==
    /\ pc = "evaluate"
    /\ failure' = "evaluation"
    /\ pc' = "unwind"
    /\ UNCHANGED <<script, topic_data, idx, fetched, pw, sessions, page, ret, log,
                   all_content, downloaded_images, files, img_i>>
    /\ UNCHANGED <<attempts, academic_paper, summary>>
    /\ UNCHANGED <<cleanVars, extractVars, renderVars>>

\* ... raises
EvaluateContentFails ==
    /\ pc = "evaluate"
    /\ failure' = "evaluation"
    /\ pc' = "except"
    /\ UNCHANGED <<script, topic_data, idx, fetched, pw, sessions, page, ret, log,
                   all_content, downloaded_images, files, img_i>>
    /\ UNCHANGED <<attempts, academic_paper, summary>>
    /\ UNCHANGED <<cleanVars, extractVars, renderVars>>

\* images = await page.evaluate(...)   (scrape_content only)
EvaluateImages ==
    /\ pc = "evaluate_images"
    /\ ret' = [ret EXCEPT !.images = scrape_images(page.imgs)]
    /\ pc' = "close"
    /\ UNCHANGED <<script, topic_data, idx, fetched, pw, sessions, failure, page,
                   log, all_content, downloaded_images, files, img_i>>
    /\ UNCHANGED <<attempts, academic_paper, summary>>
    /\ UNCHANGED <<cleanVars, extractVars, renderVars>>

\* ... raises
EvaluateImagesFails ==
    /\ pc = "evaluate_images"
    /\ failure' = "evaluation"
    /\ pc' = "except"
    /\ UNCHANGED <<script, topic_data, idx, fetched, pw, sessions, page, ret, log,
                   all_content, downloaded_images, files, img_i>>
    /\ UNCHANGED <<attempts, academic_paper, summary>>
    /\ UNCHANGED <<cleanVars, extractVars, renderVars>>

\* await browser.close(); return content[, images]
CloseAndReturn ==
    /\ pc = "close"
    /\ sessions' = [sessions EXCEPT ![browser].open = FALSE]
    /\ pc' = "exit"
    /\ UNCHANGED <<script, topic_data, idx, fetched, pw, failure, page, ret, log,
                   all_content, downloaded_images, files, img_i>>
    /\ UNCHANGED <<attempts, academic_paper, summary>>
    /\ UNCHANGED <<cleanVars, extractVars, renderVars>>

\* mutant: the handler prints, closes the browser and raises again
HandleError_reraise ==
    /\ pc = "except"
    /\ log' = Append(log, url)
    /\ sessions' = [sessions EXCEPT ![browser].open = FALSE]
    /\ pc' = "unwind"
    /\ UNCHANGED <<script, topic_data, idx, fetched, pw, failure, page, ret,
                   all_content, downloaded_images, files, img_i>>
    /\ UNCHANGED <<attempts, academic_paper, summary>>
    /\ UNCHANGED <<cleanVars, extractVars, renderVars>>

\* except Exception as e: print(f"Error scraping {url}: {e}");
\*                        await browser.close(); return None, []  /  return []
HandleError ==
    /\ pc = "except"
    /\ log' = Append(log, url)
    /\ sessions' = [sessions EXCEPT ![browser].open = FALSE]
    /\ ret' = [content |-> IF script = "scraper" THEN None ELSE <<>>, images |-> <<>>]
    /\ pc' = "exit"
    /\ UNCHANGED <<script, topic_data, idx, fetched, pw, failure, page,
                   all_content, downloaded_images, files, img_i>>
    /\ UNCHANGED <<attempts, academic_paper, summary>>
    /\ UNCHANGED <<cleanVars, extractVars, renderVars>>

\* what leaving async with async_playwright() does to the browsers: the
\* driver is stopped, and every browser it launched that is still open goes
\* down with it
StopPlaywright(ss) == [k \in 1..Len(ss) |-> [ss[k] EXCEPT !.open = FALSE]]

\* the return leaves the async with block
ExitPlaywright ==
    /\ pc = "exit"
    /\ pw' = FALSE
    /\ sessions' = StopPlaywright(sessions)
    /\ pc' = "returned"
    /\ UNCHANGED <<script, topic_data, idx, fetched, failure, page, ret, log,
                   all_content, downloaded_images, files, img_i>>
    /\ UNCHANGED <<attempts, academic_paper, summary>>
    /\ UNCHANGED <<cleanVars, extractVars, renderVars>>

\* mutant: the playwright driver started without the async with, never stopped
UnwindPlaywright_unscoped ==
    /\ pc = "unwind"
    /\ pc' = "raised"
    /\ UNCHANGED <<script, topic_data, idx, fetched, pw, sessions, failure, page,
                   ret, log, all_content, downloaded_images, files, img_i>>
    /\ UNCHANGED <<attempts, academic_paper, summary>>
    /\ UNCHANGED <<cleanVars, extractVars, renderVars>>

\* an exception leaves the async with block, then the fetch, then the run
\* (nothing between the fetch and asyncio.run catches it)
UnwindPlaywright ==
    /\ pc = "unwind"
    /\ pw' = FALSE
    /\ sessions' = StopPlaywright(sessions)
    /\ pc' = "raised"
    /\ UNCHANGED <<script, topic_data, idx, fetched, failure, page, ret, log,
                   all_content, downloaded_images, files, img_i>>
    /\ UNCHANGED <<attempts, academic_paper, summary>>
    /\ UNCHANGED <<cleanVars, extractVars, renderVars>>

\* if content: -- Python truth of the returned text: neither None nor ""
Truthy(c) == c # None /\ c # <<>>

\* scraper:   if content: all_content += f"\n\nSource: {url}\n{cleaned_content}\n"
\*            (all_content is kept as the sequence of its blocks [source, text])
\* generator: all_scraped_content.extend(content)
Aggregate ==
    /\ pc = "returned"
    /\ all_content' =
          IF script = "scraper"
          THEN (IF Truthy(ret.content)
                THEN Append(all_content,
                            [source |-> url, text |-> clean_text(ret.content)])
                ELSE all_content)
          ELSE all_content \o ret.content
    /\ img_i' = 0
    /\ attempts' = <<>>
    /\ pc' = IF script = "scraper" THEN "download" ELSE "for"
    /\ UNCHANGED <<script, topic_data, idx, fetched, pw, sessions, failure, page,
                   ret, log, downloaded_images, files>>
    /\ UNCHANGED <<academic_paper, summary>>
    /\ UNCHANGED <<cleanVars, extractVars, renderVars>>

\* filename = f"mcp_{hash(url) % 10000}_{i}.jpg"; the hash of the URL is
\* stood for by the position of the URL in the list
Filename(i) == [h |-> idx, i |-> i]

\* img['alt'] or f"MCP Diagram {i+1}"
AltOf(img, i) ==
    IF img.alt # "" THEN img.alt
    ELSE IF i = 0 THEN "MCP Diagram 1" ELSE "MCP Diagram 2"

\* download_image(img_url, filename) with the files on disk: what it returns
\* and the files afterwards.  open(filepath, 'wb') creates the file before
\* f.write runs, so a write that raises leaves the file behind; every
\* exception is caught and None returned.
download_image(img_url, filename, outcome, disk) ==
    IF outcome = "200"
    THEN [path |-> filename, files |-> disk \cup {filename}]
    ELSE IF outcome = "write_error"
    THEN [path |-> NoPath, files |-> disk \cup {filename}]
    ELSE [path |-> NoPath, files |-> disk]

\* mutant: the image loop without the [:2]
Download_unlimited ==
    /\ pc = "download"
    /\ img_i < Len(ret.images)
    /\ \E outcome \in DownloadOutcomes :
          LET img == ret.images[img_i + 1]
              got == download_image(img.src, Filename(img_i), outcome, files)
          IN  /\ files' = got.files
              /\ attempts' = Append(attempts, [src |-> img.src,
                                               filename |-> Filename(img_i),
                                               path |-> got.path])
              /\ downloaded_images' =
                    IF got.path # NoPath
                    THEN Append(downloaded_images,
                                [path |-> Filename(img_i), alt |-> AltOf(img, img_i)])
                    ELSE downloaded_images
    /\ img_i' = img_i + 1
    /\ UNCHANGED <<script, topic_data, pc, idx, fetched, pw, sessions, failure,
                   page, ret, log, all_content>>
    /\ UNCHANGED <<academic_paper, summary>>
    /\ UNCHANGED <<cleanVars, extractVars, renderVars>>

\* one turn of  for i, img in enumerate(images[:2]):  if img['src']: the
\* download_image call and, if it returned a path, the append
Download ==
    /\ pc = "download"
    /\ img_i < Len(take(ret.images, MaxImagesPerSource))
    /\ LET img == ret.images[img_i + 1]
       IN  IF img.src = ""
           THEN UNCHANGED <<files, attempts, downloaded_images>>
           ELSE \E outcome \in DownloadOutcomes :
                  LET got == download_image(img.src, Filename(img_i), outcome, files)
                  IN  /\ files' = got.files
                      /\ attempts' = Append(attempts,
                                            [src |-> img.src,
                                             filename |-> Filename(img_i),
                                             path |-> got.path])
                      /\ downloaded_images' =
                            IF got.path # NoPath
                            THEN Append(downloaded_images,
                                        [path |-> Filename(img_i),
                                         alt |-> AltOf(img, img_i)])
                            ELSE downloaded_images
    /\ img_i' = img_i + 1
    /\ UNCHANGED <<script, topic_data, pc, idx, fetched, pw, sessions, failure,
                   page, ret, log, all_content>>
    /\ UNCHANGED <<academic_paper, summary>>
    /\ UNCHANGED <<cleanVars, extractVars, renderVars>>

\* the image loop is over: back to the for loop over the URLs
DownloadsDone ==
    /\ pc = "download"
    /\ img_i = Len(take(ret.images, MaxImagesPerSource))
    /\ pc' = "for"
    /\ UNCHANGED <<script, topic_data, idx, fetched, pw, sessions, failure, page,
                   ret, log, all_content, downloaded_images, files, img_i>>
    /\ UNCHANGED <<attempts, academic_paper, summary>>
    /\ UNCHANGED <<cleanVars, extractVars, renderVars>>

\* len() of a string the code only passes through
StrLen(s) ==
    CASE s = "https://modelcontextprotocol.io" -> 31
      [] s = "https://github.com/modelcontextprotocol" -> 39
      [] s = "https://docs.anthropic.com/claude/docs/mcp" -> 42
      [] s = "https://www.anthropic.com/news/model-context-protocol" -> 53
      [] s = "https://github.com/topics/model-context-protocol" -> 48
      [] s = "Model Context Protocol: A Comprehensive Technical Analysis" -> 58
      [] s = "Security Frameworks in Model Context Protocol Implementations" -> 61
      [] s = "Performance Optimization Strategies for MCP Systems" -> 51
      [] s = "Integration Patterns: MCP in Modern Development Workflows" -> 57
      [] s = "Context Management in Large-Scale MCP Deployments" -> 49

\* len() of a rendered text: the literals by their length, a date as
\* %Y-%m-%d, a time as %H:%M:%S
PieceLen(piece) ==
    CASE piece.kind = "literal" -> piece.val
      [] piece.kind = "title" -> StrLen(piece.val)
      [] piece.kind = "date" -> 10
      [] piece.kind = "time" -> 8
      [] piece.kind = "date_time" -> 19
      [] piece.kind = "text" -> Len(piece.val)

RECURSIVE TextLen(_)
TextLen(pieces) ==
    IF pieces = <<>> THEN 0 ELSE PieceLen(Head(pieces)) + TextLen(Tail(pieces))

\* len(all_content): each block is f"\n\nSource: {url}\n{cleaned_content}\n"
RECURSIVE ContentLen(_)
ContentLen(blocks) ==
    IF blocks = <<>> THEN 0
    ELSE 10 + StrLen(Head(blocks).source) + 1 + Len(Head(blocks).text) + 1
         + ContentLen(Tail(blocks))

\* the topic random.choice drew, by its focus
TopicOf(focus) == CHOOSE td \in Topics : td.focus = focus

\* generate_content after the loop: the paper is rendered and the result
\* returned; the date and time are the ones __init__ read
GeneratePaper ==
    /\ pc = "done"
    /\ script = "generator"
    /\ \E k \in 1..Len(Stamps), later \in 1..Len(Stamps) :
          /\ k <= later
          /\ academic_paper' =
                [title |-> TopicOf(topic_data).title,
                 content |-> generate_high_quality_academic_paper(
                                TopicOf(topic_data), all_content,
                                [current_date |-> Stamps[k].current_date,
                                 current_time |-> Stamps[later].current_time]),
                 focus |-> topic_data]
    /\ pc' = "result"
    /\ UNCHANGED <<script, topic_data, idx, fetched, pw, sessions, failure, page,
                   ret, log, all_content, downloaded_images, files, img_i>>
    /\ UNCHANGED <<attempts, summary>>
    /\ UNCHANGED <<cleanVars, extractVars, renderVars>>

\* __main__ after asyncio.run returned: the summary is printed, the process
\* exits
PrintSummary ==
    /\ \/ script = "scraper" /\ pc = "done"
       \/ script = "generator" /\ pc = "result"
    /\ summary' =
          IF script = "scraper"
          THEN << [label |-> "Scraped content length",
                   value |-> ContentLen(all_content)],
                  [label |-> "Downloaded images",
                   value |-> Len(downloaded_images)] >>
          ELSE << [label |-> "Generated", value |-> academic_paper.title],
                  [label |-> "Focus", value |-> academic_paper.focus],
                  [label |-> "Content length",
                   value |-> TextLen(academic_paper.content)] >>
    /\ pc' = "exited"
    /\ UNCHANGED <<script, topic_data, idx, fetched, pw, sessions, failure, page,
                   ret, log, all_content, downloaded_images, files, img_i>>
    /\ UNCHANGED <<attempts, academic_paper>>
    /\ UNCHANGED <<cleanVars, extractVars, renderVars>>

NextRun ==
    \/ Start
    \/ ForNext
    \/ ForEnd
    \/ EnterPlaywright
    \/ Launch
    \/ LaunchFails
    \/ NewPage
    \/ NewPageFails
    \/ Goto
    \/ GotoFails
    \/ EvaluateContent
    \/ EvaluateContentFails
    \/ EvaluateImages
    \/ EvaluateImagesFails
    \/ CloseAndReturn
    \/ HandleError
    \/ ExitPlaywright
    \/ UnwindPlaywright
    \/ Aggregate
    \/ Download
    \/ DownloadsDone
    \/ GeneratePaper
    \/ PrintSummary

SpecRun == InitRun /\ [][NextRun]_vars

(***************************************************************************)
(* Claims about clean_text (SpecClean)                                     *)
(***************************************************************************)

Cleaned == cpc \in {"cleaned", "recleaned"}

\* The lines of a text as its reader sees them: the newline-separated pieces.
InputLines(t) == IF t = <<>> THEN <<>> ELSE split(t, "\n")

\* The lines of the input that pass the keep-condition when each one is
\* trimmed and whitespace-collapsed on its own.
LineSurvivors(t) ==
    LET ls == InputLines(t)
    IN  SelectSeq([k \in 1..Len(ls) |-> strip(collapse_ws(ls[k]))], KeepLine)

\* C1: clean_text filters each line of its input independently: for a
\* multi-line input in which exactly one line is long enough and free of
\* skip phrases, the output is exactly that line, trimmed.
C1_ExactlyTheOneSurvivingLine ==
    (Cleaned /\ Len(InputLines(text)) > 1 /\ Len(LineSurvivors(text)) = 1)
        => result = LineSurvivors(text)[1]

\* C2: no line of the output of clean_text is shorter than 30 characters and
\* no line of it contains a skip phrase, compared case-insensitively.
C2_NoShortOrBoilerplateLine ==
    Cleaned =>
        \A k \in 1..Len(InputLines(result)) :
            LET line == InputLines(result)[k]
            IN  /\ Len(line) >= 30
                /\ \A phrase \in skip_phrases : ~Contains(lower(line), phrase)

\* C2 witness: clean_text returned a line, out of an input it had to change.
C2_Witness == cpc = "cleaned" /\ result # <<>> /\ result # text

\* C3: the output of clean_text is the newline-join of the first 10 lines of
\* the input that survive, in their order (so at most 10 lines, and empty
\* when no line survives).
C3_JoinOfFirstTenSurvivors ==
    Cleaned =>
        /\ result = join(take(LineSurvivors(text), MaxLines), "\n")
        /\ Len(InputLines(result)) <= MaxLines
        /\ (LineSurvivors(text) = <<>> => result = <<>>)

\* C4: clean_text is idempotent: clean_text(clean_text(t)) = clean_text(t).
C4_Idempotent == cpc = "recleaned" => again = result

\* C4 witness: a non-empty cleaned text, different from the input, was
\* cleaned a second time.
C4_Witness == cpc = "recleaned" /\ result # <<>> /\ result # text


\* the one line clean_text tests: the whole text, whitespace-collapsed and
\* trimmed
WholeLine(t) == strip(collapse_ws(t))

NoSkipPhraseIn(line) == \A phrase \in skip_phrases : ~Contains(lower(line), phrase)

\* C14 as claimed: a line free of skip phrases is discarded exactly when,
\* trimmed and whitespace-collapsed, it is shorter than 30 characters; one of
\* exactly 30 characters is kept.  (Stated on the inputs of one line.)
C14_DiscardedIffShorterThan30 ==
    (Cleaned /\ Len(InputLines(text)) = 1 /\ NoSkipPhraseIn(WholeLine(text)))
        => /\ result = <<>> <=> Len(WholeLine(text)) < 30
           /\ Len(WholeLine(text)) >= 30 => result = WholeLine(text)

\* C14 as amended: the line clean_text tests, which is the whole text
\* whitespace-collapsed and trimmed, is discarded for its length exactly when
\* it has 30 characters or fewer; a line of exactly 30 characters is dropped
\* and one of 31 or more, free of skip phrases, is kept.
C14_DiscardedIffAtMost30 ==
    (Cleaned /\ text # <<>> /\ NoSkipPhraseIn(WholeLine(text)))
        => /\ result = <<>> <=> Len(WholeLine(text)) <= 30
           /\ Len(WholeLine(text)) >= 31 => result = WholeLine(text)

\* C14 witness: a text that comes to exactly 30 characters was discarded.
C14_Witness ==
    /\ cpc = "cleaned"
    /\ Len(WholeLine(text)) = 30 /\ NoSkipPhraseIn(WholeLine(text))
    /\ result = <<>>

HasNewline(s) == \E i \in 1..Len(s) : s[i] = "\n"

\* C23: for every input text the output of clean_text has no newline
\* character: it is a single line or the empty string, because the
\* whitespace collapsing has replaced every newline by a space before the
\* split, which therefore finds one line.
C23_OutputHasNoNewline ==
    Cleaned =>
        /\ ~HasNewline(result)
        /\ Len(InputLines(result)) <= 1
        /\ ~HasNewline(collapse_ws(text))
        /\ Len(split(collapse_ws(text), "\n")) = 1

\* C23 witness: an input of several lines, two of which would each pass the
\* keep-condition on their own, was cleaned to a non-empty output.
C23_Witness ==
    /\ cpc = "cleaned"
    /\ HasNewline(text)
    /\ Len(LineSurvivors(text)) >= 2
    /\ result # <<>>

(***************************************************************************)
(* Claims about the extraction of scrape_academic_content (SpecExtract)    *)
(***************************************************************************)

\* the items of one kind, in the order of the result
ItemsOfType(items, ty) == LET Is(it) == it.type = ty IN SelectSeq(items, Is)

\* the numeric level of a heading element: 1 for H1, ..., 6 for H6
LevelOf(el) == CHOOSE n \in 1..6 : el.tagName = <<"H", Digits[n + 1]>>

\* C9: a heading element (h1 to h6) yields a Heading item if and only if its
\* trimmed text is longer than 10 characters; the item carries the trimmed
\* text and the numeric level of the element, which is in 1..6.
C9_HeadingIffLongerThan10 ==
    epc = "extracted" =>
        LET Yields(i) == /\ dom[i].tagName \in HeadingTags
                         /\ Len(strip(dom[i].text)) > 10
            from == SelectSeq([i \in 1..Len(dom) |-> i], Yields)
            got == ItemsOfType(content, "heading")
        IN  /\ got = [k \in 1..Len(from) |->
                        [type |-> "heading",
                         level |-> LevelOf(dom[from[k]]),
                         text |-> strip(dom[from[k]].text)]]
            /\ \A k \in 1..Len(got) : got[k].level \in 1..6

\* C9 witness: a document with a 12-character heading, kept, and a
\* 3-character heading, dropped.
C9_Witness ==
    /\ epc = "extracted"
    /\ \E i, j \in 1..Len(dom) :
          /\ dom[i].tagName \in HeadingTags /\ Len(strip(dom[i].text)) = 12
          /\ dom[j].tagName \in HeadingTags /\ Len(strip(dom[j].text)) = 3
    /\ Len(ItemsOfType(content, "heading")) = 1

\* C10: a paragraph element yields a Paragraph item if and only if it lies
\* inside main, article, .content or .documentation and its trimmed text is
\* longer than 50 and shorter than 500 characters.
C10_ParagraphIffInMainAndBetween50And500 ==
    epc = "extracted" =>
        LET Yields(i) ==
                /\ dom[i].tagName = <<"P">>
                /\ \E c \in {"main", "article", ".content", ".documentation"} :
                       c \in dom[i].anc
                /\ Len(strip(dom[i].text)) > 50
                /\ Len(strip(dom[i].text)) < 500
            from == SelectSeq([i \in 1..Len(dom) |-> i], Yields)
        IN  ItemsOfType(content, "paragraph") =
                [k \in 1..Len(from) |->
                    [type |-> "paragraph", text |-> strip(dom[from[k]].text)]]

\* C10 witness: a paragraph of exactly 500 characters inside a main-content
\* container, dropped, next to a paragraph that was kept.
C10_Witness ==
    /\ epc = "extracted"
    /\ \E i \in 1..Len(dom) :
          /\ dom[i].tagName = <<"P">>
          /\ dom[i].anc \cap MainContainers # {}
          /\ Len(strip(dom[i].text)) = 500
    /\ Len(ItemsOfType(content, "paragraph")) = 1


\* C11: a pre or code element yields a Code item if and only if its trimmed
\* text is longer than 20 characters; no Code item is shorter than 21.
C11_CodeIffLongerThan20 ==
    epc = "extracted" =>
        LET Yields(i) == /\ dom[i].tagName \in {<<"P","R","E">>, <<"C","O","D","E">>}
                         /\ Len(strip(dom[i].text)) > 20
            from == SelectSeq([i \in 1..Len(dom) |-> i], Yields)
            got == ItemsOfType(content, "code")
        IN  /\ got = [k \in 1..Len(from) |->
                        [type |-> "code", text |-> strip(dom[from[k]].text)]]
            /\ \A k \in 1..Len(got) : Len(got[k].text) >= 21

\* C11 witness: a code element of exactly 20 characters between whitespace,
\* dropped, next to one of 21 characters, kept.
C11_Witness ==
    /\ epc = "extracted"
    /\ \E i, j \in 1..Len(dom) :
          /\ MatchesCode(dom[i]) /\ Len(strip(dom[i].text)) = 20
          /\ MatchesCode(dom[j]) /\ Len(strip(dom[j].text)) = 21
    /\ Len(ItemsOfType(content, "code")) = 1

\* the item an element yields, in a sequence of its own; empty if none
ItemOf(el) ==
    IF el.tagName \in HeadingTags /\ Len(strip(el.text)) > 10
    THEN <<[type |-> "heading", level |-> LevelOf(el), text |-> strip(el.text)]>>
    ELSE IF el.tagName \in CodeTags /\ Len(strip(el.text)) > 20
    THEN <<[type |-> "code", text |-> strip(el.text)]>>
    ELSE IF /\ el.tagName = <<"P">>
            /\ el.anc \cap MainContainers # {}
            /\ Len(strip(el.text)) > 50 /\ Len(strip(el.text)) < 500
    THEN <<[type |-> "paragraph", text |-> strip(el.text)]>>
    ELSE <<>>

\* the items of a document listed in document order
RECURSIVE DocumentOrder(_)
DocumentOrder(d) ==
    IF d = <<>> THEN <<>> ELSE ItemOf(Head(d)) \o DocumentOrder(Tail(d))

\* C13 as claimed: the items of a page result are in document order, items
\* of different kinds included.
C13_ItemsInDocumentOrder ==
    epc = "extracted" => content = DocumentOrder(dom)

\* C13 as amended: the result lists all the headings, then all the code
\* items, then all the paragraphs; the items of one kind are in document
\* order.
C13_GroupedByKindThenDocumentOrder ==
    epc = "extracted" =>
        content = ItemsOfType(DocumentOrder(dom), "heading")
                  \o ItemsOfType(DocumentOrder(dom), "code")
                  \o ItemsOfType(DocumentOrder(dom), "paragraph")

\* C13 witness: a paragraph that comes before a heading in the page comes
\* after it in the result.
C13_Witness ==
    /\ epc = "extracted"
    /\ Len(dom) = 2
    /\ dom[1].tagName = <<"P">> /\ dom[2].tagName \in HeadingTags
    /\ Len(content) = 2
    /\ content[1].type = "heading" /\ content[2].type = "paragraph"

(***************************************************************************)
(* Claims about the extraction of scrape_content (SpecScrape)              *)
(***************************************************************************)

\* C12: the fetch returns an ImageRef for an img element if and only if its
\* source is not empty and its width or its height exceeds 100 pixels (80x80
\* is dropped, 120x50 is kept, 100x100 is dropped).
C12_ImageIffSourceAndLargerThan100 ==
    epc = "extracted" =>
        LET Yields(i) == /\ imgs[i].src # ""
                         /\ (imgs[i].width > 100 \/ imgs[i].height > 100)
            from == SelectSeq([i \in 1..Len(imgs) |-> i], Yields)
        IN  images = [k \in 1..Len(from) |-> imgs[from[k]]]

\* C12 witness: of a 120x50 image and a 100x100 image, both with a source,
\* the first alone was returned.
C12_Witness ==
    /\ epc = "extracted"
    /\ Len(imgs) = 2
    /\ imgs[1].src # "" /\ imgs[1].width = 120 /\ imgs[1].height = 50
    /\ imgs[2].src # "" /\ imgs[2].width = 100 /\ imgs[2].height = 100
    /\ images = <<imgs[1]>>

\* the positions in the selector list of the selectors that match an element
MatchingSelectors ==
    { k \in 1..Len(selectors) : \E i \in 1..Len(dom) : Matches(dom[i], selectors[k]) }

\* the elements a selector matches whose trimmed text is longer than 50
\* characters, in document order
LongEnough(sel) ==
    LET Yields(i) == Matches(dom[i], sel) /\ Len(strip(dom[i].text)) > 50
    IN  SelectSeq([i \in 1..Len(dom) |-> i], Yields)

\* C24: the text of scrape_content comes from exactly one selector, the first
\* of the list that matches an element: it is the trimmed texts of that
\* selector's elements longer than 50 characters, each followed by two
\* newlines; it is empty when no selector matches, and empty when none of that
\* selector's elements is long enough, whatever a later selector matches.
C24_TextFromFirstMatchingSelectorOnly ==
    epc \in {"text", "extracted"} =>
        IF MatchingSelectors = {}
        THEN content = <<>>
        ELSE LET first == CHOOSE k \in MatchingSelectors :
                              \A j \in MatchingSelectors : k <= j
                 from == LongEnough(selectors[first])
             IN  content = Concat([n \in 1..Len(from) |->
                                     strip(dom[from[n]].text) \o <<"\n", "\n">>])

\* C24 witness: the first matching selector has no element long enough, a
\* later selector has one, and the text is empty.
C24_Witness ==
    /\ epc = "text"
    /\ Len(dom) = 2
    /\ Matches(dom[1], "main") /\ Len(strip(dom[1].text)) = 50
    /\ Matches(dom[2], "article") /\ Len(strip(dom[2].text)) > 50
    /\ content = <<>>

(***************************************************************************)
(* Claims about the fetches and the run (SpecRun)                          *)
(***************************************************************************)

\* the failures the try block of a fetch catches
Caught == {"navigation", "timeout", "evaluation"}

\* the fetch called last has returned to the loop, which has not called the
\* next one yet
FetchReturned ==
    pc \in {"returned", "download", "for", "done", "result", "exited"} /\ idx > 0

\* no fetch is running: before the first, between two, after the last, or
\* after an exception has left the run
NoFetchRunning ==
    pc \in {"start", "returned", "download", "for", "done", "result", "exited",
            "raised"}

IsPrefix(a, b) == Len(a) <= Len(b) /\ a = SubSeq(b, 1, Len(a))

\* C5: a fetch in which the navigation raises an error or times out, or an
\* evaluation in the page raises, does not raise: it returns an empty result
\* (no items, no images) and has printed the error for its URL.
C5_CaughtFailureReturnsEmpty ==
    failure \in Caught =>
        /\ pc \notin {"unwind", "raised"}
        /\ FetchReturned =>
              /\ ret.content = (IF script = "scraper" THEN None ELSE <<>>)
              /\ ret.images = <<>>
              /\ log # <<>> /\ log[Len(log)] = url

\* C5 witness: a fetch of the scraper has returned after an evaluation error.
C5_Witness ==
    pc = "returned" /\ failure = "evaluation" /\ script = "scraper"

C7_EveryUrlFetchedOnce ==
    /\ IsPrefix(fetched, urls)
    /\ pc \in {"done", "raised"} => fetched = urls

\* C7 as amended: the URLs are fetched in list order, each at most once; a
\* fetch that fails with a caught failure is not retried and does not stop
\* the loop; a run that returns has fetched every URL exactly once; the run
\* ends early only by an exception raised outside the try block of a fetch
\* (the browser launch or the opening of the page).
C7_FetchedInOrderUnlessLaunchRaises ==
    /\ IsPrefix(fetched, urls)
    /\ Len(fetched) = idx
    /\ pc = "done" => fetched = urls
    /\ pc \in {"unwind", "raised"} => failure \in {"launch", "new_page"}
    /\ (pc = "for" /\ idx < Len(urls)) => ENABLED ForNext

\* C7 witness: the run has returned although every one of its fetches failed.
C7_Witness == pc = "done" /\ Len(log) = Len(urls) /\ fetched = urls

\* C8: at most one browser is open at any moment; no browser navigates to
\* more than one URL; a fetch past its launch works on the browser it
\* launched itself; a fetch starts with every earlier browser closed.
C8_OneSessionPerFetch ==
    /\ Cardinality(OpenSessions) <= 1
    /\ \A k \in 1..Len(sessions) :
          /\ Len(sessions[k].navs) <= 1
          /\ \A n \in 1..Len(sessions[k].navs) : sessions[k].navs[n] = urls[k]
    /\ pc \in {"enter", "launch"} => OpenSessions = {}
    /\ pc \in {"new_page", "goto", "evaluate", "evaluate_images", "close", "except"}
          => /\ Len(sessions) = idx
             /\ sessions[idx].url = url
             /\ OpenSessions = {idx}

\* C8 witness: the second fetch navigates in its own browser while the
\* browser of the first fetch, which navigated too, is closed.
C8_Witness ==
    /\ pc = "evaluate"
    /\ Len(sessions) = 2
    /\ sessions[2].open /\ Len(sessions[2].navs) = 1
    /\ ~sessions[1].open /\ Len(sessions[1].navs) = 1

\* C15 as stated: when every fetch of a run has failed, whatever failed in
\* it, the run ends normally: the entry point has printed its summary and
\* nothing was raised out of the run.
RunOver == pc \in {"exited", "raised"}

AllFetchesFailed ==
    /\ fetched # <<>>
    /\ Len(log) + (IF pc = "raised" THEN 1 ELSE 0) = Len(fetched)

C15_TotalFailureEndsNormally ==
    (RunOver /\ AllFetchesFailed) => (pc = "exited" /\ summary # <<>>)

\* C15, amended: when every fetch of a run fails inside the try of the fetch
\* (navigation, timeout, extraction), the run goes on to its end: run_scraper
\* returns no content and no images, generate_content returns a paper, the
\* entry point prints its summary (lengths 0 for the scraper) and exits; the
\* run never stops before that point.  Only a failure of the browser launch or
\* of new_page is raised out of the run, and then no summary is printed.
C15_CaughtFailuresEndInSummary ==
    /\ (pc = "exited" /\ Len(log) = Len(urls)) =>
          /\ all_content = <<>>
          /\ downloaded_images = <<>>
          /\ script = "scraper" =>
                /\ Len(summary) = 2
                /\ summary[1].value = 0
                /\ summary[2].value = 0
          /\ script = "generator" =>
                /\ academic_paper.content # <<>>
                /\ Len(summary) = 3
                /\ summary[3].value = TextLen(academic_paper.content)
    /\ pc = "raised" => (failure \in {"launch", "new_page"} /\ summary = <<>>)
    /\ idx <= Len(urls)

\* a run that is not over can take a step
CanStep ==
    \/ pc \in {"start", "enter", "launch", "new_page", "goto", "evaluate",
                "evaluate_images", "close", "except", "exit", "unwind",
                "returned", "done"}
    \/ pc = "for" /\ idx <= Len(urls)
    \/ pc = "download" /\ img_i <= Len(take(ret.images, MaxImagesPerSource))
    \/ pc = "result" /\ script = "generator"

\* what is left of a run: the URLs not taken yet, then the steps left for the
\* current URL
StepsLeft ==
    CASE pc = "start" -> 20
      [] pc = "enter" -> 18
      [] pc = "launch" -> 17
      [] pc = "new_page" -> 16
      [] pc = "goto" -> 15
      [] pc = "evaluate" -> 14
      [] pc = "evaluate_images" -> 13
      [] pc \in {"close", "except"} -> 12
      [] pc \in {"exit", "unwind"} -> 11
      [] pc = "returned" -> 10
      [] pc = "download" -> 9 - img_i
      [] pc = "for" -> 5
      [] pc = "done" -> 4
      [] pc = "result" -> 3
      [] pc \in {"exited", "raised"} -> 0

Measure == (Len(urls) - idx) * 20 + StepsLeft

C15_CaughtTotalFailureEndsNormally ==
    /\ [](/\ C15_CaughtFailuresEndInSummary
          /\ ~RunOver => CanStep
          /\ Measure >= 0)
    /\ [][Measure' < Measure]_vars

C15_Witness ==
    /\ pc = "exited"
    /\ Len(log) = Len(urls)
    /\ {failure} \subseteq Caught
    /\ summary # <<>>

\* C16: every block of the aggregated content carries non-empty text: a
\* source whose result is empty adds no block.
C16_EveryBlockHasText ==
    \A k \in 1..Len(all_content) : all_content[k].text # <<>>

\* C19: download_image returns a path only when the file was written, and
\* when it returns no path it has left no file under the name it was given.
C19_PathIffFileOnDisk ==
    \A k \in 1..Len(attempts) :
        /\ attempts[k].path # NoPath =>
              (attempts[k].path = attempts[k].filename /\ attempts[k].filename \in files)
        /\ attempts[k].path = NoPath => attempts[k].filename \notin files

\* C20: for each source URL at most 2 downloads are attempted, they are the
\* first ImageRefs of the result of that page in their order, all of the first
\* two are attempted, and a download appends one entry to downloaded_images
\* exactly when it returned a path; nothing else changes downloaded_images
\* during the loop.
FirstImages == take(ret.images, MaxImagesPerSource)

C20_AtMostFirstTwoOneEntryPerPath ==
    /\ [](/\ Len(attempts) <= MaxImagesPerSource
          /\ pc = "download" =>
                /\ Len(attempts) = img_i
                /\ \A k \in 1..Len(attempts) : attempts[k].src = FirstImages[k].src)
    /\ [][/\ (pc = "download" /\ pc' = "for") => Len(attempts) = Len(FirstImages)
          /\ (pc = "download" /\ pc' = "download") =>
                LET a == attempts'[Len(attempts')]
                IN  /\ Len(attempts') = Len(attempts) + 1
                    /\ IF a.path # NoPath
                       THEN /\ Len(downloaded_images') = Len(downloaded_images) + 1
                            /\ downloaded_images'[Len(downloaded_images')].path = a.path
                            /\ SubSeq(downloaded_images', 1, Len(downloaded_images))
                                  = downloaded_images
                       ELSE downloaded_images' = downloaded_images
          /\ pc # "download" =>
                \/ downloaded_images' = downloaded_images
                \/ pc = "start"]_vars

C20_Witness ==
    /\ pc = "for"
    /\ Len(ret.images) = 3
    /\ Len(attempts) = 2
    /\ attempts[1].path = NoPath
    /\ attempts[2].path # NoPath
    /\ Len(downloaded_images) = 1

(***************************************************************************)
(* Claims about the template renderers (SpecRender)                        *)
(***************************************************************************)

HasPiece(out, kind, v) ==
    \E i \in 1..Len(out) : out[i].kind = kind /\ out[i].val = v

HasKind(out, kind) == \E i \in 1..Len(out) : out[i].kind = kind

\* C18: what a render returns contains the title of the topic, a date and
\* time, and the scraped text it was given, whatever the template.
C18_OutputHasTitleTimeAndText ==
    \A k \in 1..Len(renders) :
        LET r == renders[k]
        IN  /\ HasPiece(r.out, "title", r.topic.title)
            /\ \/ HasKind(r.out, "date_time")
               \/ HasKind(r.out, "date") /\ HasKind(r.out, "time")
            /\ IF renderer = "generator"
               THEN \A i \in 1..Len(r.scraped_content) :
                       HasPiece(r.out, "text", r.scraped_content[i].text)
               ELSE r.scraped_content = <<>>
                    \/ HasPiece(r.out, "text", r.scraped_content)

\* C22: the paper of generate_high_quality_academic_paper does not depend on
\* the scraped content: two renders of one generator object for the same
\* topic return the identical paper whatever lists they were given, and that
\* paper is the one the empty list gives; this for every focus.
C22_PaperIndependentOfScrapedContent ==
    renderer = "generator" =>
        \A j, k \in 1..Len(renders) :
            /\ renders[j].topic = renders[k].topic => renders[j].out = renders[k].out
            /\ renders[k].out =
                  generate_high_quality_academic_paper(renders[k].topic, <<>>, self_stamp)

\* C22 witness: two renders of one generator for the same topic, one with the
\* empty list and one with scraped items, returned the same paper.
C22_Witness ==
    /\ renderer = "generator"
    /\ Len(renders) = 2
    /\ renders[1].topic = renders[2].topic
    /\ renders[1].scraped_content = <<>>
    /\ Len(renders[2].scraped_content) = 2
    /\ renders[1].out = renders[2].out

\* the date/time values a rendered text carries
DateTimesIn(out) ==
    { out[i].val : i \in { n \in 1..Len(out) : out[n].kind = "date_time" } }
    \cup { [current_date |-> out[i].val, current_time |-> out[j].val] :
              i \in { n \in 1..Len(out) : out[n].kind = "date" },
              j \in { n \in 1..Len(out) : out[n].kind = "time" } }

\* C21 as stated: two renders made by the same object, generator or scraper,
\* carry the same date/time, whenever they were made.
C21_SameDateTimeInEveryRender ==
    \A j, k \in 1..Len(renders) :
        \A a \in DateTimesIn(renders[j].out), b \in DateTimesIn(renders[k].out) : a = b

\* C21, amended: the generator reads the date and the time at construction
\* and never again, and every paper it renders carries exactly these values,
\* whenever it is rendered; the scraper captures nothing at construction, and
\* a text it renders carries the date/time read during that call, if its
\* template has one.
C21_GeneratorCapturesOnceScraperReadsClock ==
    /\ [](/\ renderer = "generator" =>
                \A k \in 1..Len(renders) : DateTimesIn(renders[k].out) = {self_stamp}
          /\ renderer = "scraper" =>
                /\ self_stamp = NoStamp
                /\ \A k \in 1..Len(renders) :
                      DateTimesIn(renders[k].out) \subseteq {Stamps[renders[k].at]})
    /\ [][/\ (rpc = "new" /\ rpc' = "ready" /\ renderer = "generator") =>
                /\ self_stamp'.current_date = Stamps[clock].current_date
                /\ self_stamp'.current_time = Stamps[clock'].current_time
          /\ rpc = "ready" => self_stamp' = self_stamp]_vars

\* C21 witness: a generator rendered twice, at different times, the second
\* time when the clock no longer read what the object holds; both papers
\* carry the date/time of the object.
C21_Witness ==
    /\ renderer = "generator"
    /\ Len(renders) = 2
    /\ renders[1].at # renders[2].at
    /\ Stamps[renders[2].at] # self_stamp
    /\ DateTimesIn(renders[1].out) = {self_stamp}
    /\ DateTimesIn(renders[2].out) = {self_stamp}

=============================================================================
